---- MODULE Spec2Model ----
(***************************************************************************)
(* Occupancy ledger of the bus/device backend (src/backend).               *)
(*                                                                         *)
(* The relational store is a keyed record store `db` (id_bus -> Bus row),  *)
(* the Redis mirror is `redisKV` (key count:<id_bus> -> integer) with the  *)
(* in-process dictionary `fallback` (_FALLBACK_COUNTS) beside it.  Every   *)
(* HTTP handler is one action; the helper functions of redis_client.py are *)
(* operators that return the new mirror, the new dictionary, the messages  *)
(* published and the value returned.                                       *)
(***************************************************************************)
EXTENDS Integers, Sequences, FiniteSets, Bags, TLC

VARIABLES
    db,        \* table "bus": id_bus -> [id_devices, devices, count]
    redisKV,   \* Redis keys count:<id_bus> -> integer
    fallback,  \* _FALLBACK_COUNTS: id_bus -> integer
    redisUp,   \* whether get_redis_client() currently gets a client (ping succeeds)
    resp,      \* the response of the last HTTP call
    lastPub,   \* the messages the last HTTP call published, in order
    last,      \* the last HTTP call: operation, container, entity, flag, broker mode
    repeated,  \* whether the last HTTP call was a present=true report repeating the call before it
    reqs,      \* concurrent /devices/event requests: position and session-local Bus object
    base,      \* the store when the current group of concurrent requests was admitted
    batches,   \* number of groups of concurrent requests admitted so far
    sub,       \* the /ws/{id_bus} connection: handler position, snapshot, pubsub object, messages
    now,       \* receiver: time.time(), in half seconds
    _seen,     \* receiver: self._seen, identifier -> BleSeen
    _reported_flags, \* receiver: self._reported_flags, identifier -> bool
    workers,   \* receiver: the api-event threads that have not finished, as a bag of their events
    posted,    \* receiver: the events the last step handed to _post_device_event_async
    lastEvent, \* receiver: per identifier, the flag of the last event handed over
    hist,      \* receiver: per identifier, whether its accepted payloads were within the radius, the latest two, latest first
    ignored,   \* receiver: whether the last step was a payload from which the slot returned early
    slot,      \* receiver: a call of on_ble_discovered that runs beside the tick: position and locals
    lbl        \* receiver: the number self.lbl shows

\* the ledger's side and the receiver's side
ledger == <<db, redisKV, fallback, redisUp, resp, lastPub, last, repeated, reqs, base, batches, sub>>

receiver == <<now, _seen, _reported_flags, workers, posted, lastEvent, hist, ignored, slot, lbl>>

vars == <<ledger, receiver>>

(***************************************************************************)
(* Bounds of the model.                                                    *)
(***************************************************************************)
MaxInitialCount == 1
MaxPayloadList == 2
MaxBatches == 2
NumRequests == 2
MaxCached == 3
MaxMessages == 3

\* the container ids the calls name
BusIds == {"B1"}
\* the entity ids the calls name
DeviceIds == {"D1", "D2"}
\* the opaque `data` dictionary of a device event
Payloads == {"p1", "p2"}
\* the /devices/event requests in flight at the same time
ReqIds == 1..NumRequests

Max(a, b) == IF a >= b THEN a ELSE b

\* f with key k set to v (a dictionary assignment, or an INSERT/UPDATE of a row)
Put(f, k, v) == [x \in (DOMAIN f) \cup {k} |-> IF x = k THEN v ELSE f[x]]

\* f without key k (a DELETE of a row)
Drop(f, k) == [x \in (DOMAIN f) \ {k} |-> f[x]]

EmptyMap == [x \in {} |-> 0]

\* an Optional value: None, or the value x
None == <<>>

Some(x) == <<x>>

Val(o) == o[1]

(***************************************************************************)
(* redis_client.py.  `m` is what happens to the broker during the call:    *)
(*   "down"    get_redis_client() returns None (the ping fails)             *)
(*   "ok"      every Redis command succeeds                                 *)
(*   "pub_err" the key is written, then r.publish raises RedisError         *)
(* A RedisError raised by the first command of a helper takes the same     *)
(* branch arithmetic as a failed ping, so "down" stands for both.          *)
(***************************************************************************)
AllModes == {"down", "ok", "pub_err"}

Modes(up) == IF up THEN {"ok", "pub_err"} ELSE {"down"}

\* _FALLBACK_COUNTS.get(id_bus, 0)
FallbackGet(fb, id) == IF id \in DOMAIN fb THEN fb[id] ELSE 0

\* the integer INCRBY/DECRBY start from: a missing key counts as 0
RedisGet(kv, id) == IF id \in DOMAIN kv THEN kv[id] ELSE 0

\* json.dumps({"id_bus": id_bus, "count": value}) on channel bus_count:<id_bus>
CountMessage(id, value) == [id_bus |-> id, count |-> value]

get_count(kv, fb, id, m) ==
    IF m = "down" THEN FallbackGet(fb, id)
    ELSE IF id \in DOMAIN kv THEN kv[id] ELSE 0

\* set_count with one key and one channel for every container
set_count_SharedKey(kv, fb, id, value, m) ==
    LET fb1 == [k \in (DOMAIN fb) \cup {id} |-> value]
        kv1 == [k \in (DOMAIN kv) \cup {id} |-> value]
    IN
    IF m = "down" THEN [kv |-> kv, fb |-> fb1, pubs |-> <<>>]
    ELSE IF m = "pub_err" THEN [kv |-> kv1, fb |-> fb1, pubs |-> <<>>]
    ELSE [kv |-> kv1, fb |-> fb1,
          pubs |-> <<CountMessage(id, value)>>]

set_count(kv, fb, id, value, m) ==
    LET fb1 == Put(fb, id, value) IN
    IF m = "down" THEN [kv |-> kv, fb |-> fb1, pubs |-> <<>>]
    ELSE IF m = "pub_err" THEN [kv |-> Put(kv, id, value), fb |-> fb1, pubs |-> <<>>]
    ELSE [kv |-> Put(kv, id, value), fb |-> fb1,
          pubs |-> <<CountMessage(id, value)>>]

\* incr_count returning the count it read instead of the count it wrote
incr_count_ReturnsOld(kv, fb, id, by, m) ==
    LET viaFallback == FallbackGet(fb, id) + by
        new_val == RedisGet(kv, id) + by
    IN
    IF m = "down" THEN
        [kv |-> kv, fb |-> Put(fb, id, viaFallback), pubs |-> <<>>,
         ret |-> FallbackGet(fb, id)]
    ELSE IF m = "pub_err" THEN
        [kv |-> Put(kv, id, new_val), fb |-> Put(fb, id, viaFallback),
         pubs |-> <<>>, ret |-> FallbackGet(fb, id)]
    ELSE
        [kv |-> Put(kv, id, new_val), fb |-> Put(fb, id, new_val),
         pubs |-> <<CountMessage(id, new_val)>>, ret |-> RedisGet(kv, id)]

incr_count(kv, fb, id, by, m) ==
    LET viaFallback == FallbackGet(fb, id) + by
        new_val == RedisGet(kv, id) + by
    IN
    IF m = "down" THEN
        [kv |-> kv, fb |-> Put(fb, id, viaFallback), pubs |-> <<>>,
         ret |-> viaFallback]
    ELSE IF m = "pub_err" THEN
        [kv |-> Put(kv, id, new_val), fb |-> Put(fb, id, viaFallback),
         pubs |-> <<>>, ret |-> viaFallback]
    ELSE
        [kv |-> Put(kv, id, new_val), fb |-> Put(fb, id, new_val),
         pubs |-> <<CountMessage(id, new_val)>>, ret |-> new_val]

decr_count(kv, fb, id, by, m) ==
    LET viaFallback == Max(0, FallbackGet(fb, id) - by)
        decremented == RedisGet(kv, id) - by
        new_val == IF decremented < 0 THEN 0 ELSE decremented
    IN
    IF m = "down" THEN
        [kv |-> kv, fb |-> Put(fb, id, viaFallback), pubs |-> <<>>,
         ret |-> viaFallback]
    ELSE IF m = "pub_err" THEN
        [kv |-> Put(kv, id, new_val), fb |-> Put(fb, id, viaFallback),
         pubs |-> <<>>, ret |-> viaFallback]
    ELSE
        [kv |-> Put(kv, id, new_val), fb |-> Put(fb, id, new_val),
         pubs |-> <<CountMessage(id, new_val)>>, ret |-> new_val]

(***************************************************************************)
(* routers/devices.py: POST /devices/event                                 *)
(***************************************************************************)
\* Bus(id_bus=..., devices=[], id_devices=[], count=0)
NewBus(count) == [id_devices |-> <<>>, devices |-> <<>>, count |-> count]

\* a membership test that looks at the first stored id only
InList_FirstOnly(e, ids) == Len(ids) > 0 /\ ids[1] = e

\* payload.id_device in (bus.id_devices or [])
InList(e, ids) == \E i \in 1..Len(ids) : ids[i] = e

\* (bus.count or 0) + 1
IncrementedCount(count) == count + 1

\* max(0, (bus.count or 0) - 1)
DecrementedCount(count) == Max(0, count - 1)

\* [d for d in (bus.id_devices or []) if d != payload.id_device]
WithoutDevice(ids, e) == SelectSeq(ids, LAMBDA d : d # e)

\* [d for d in (bus.devices or []) if d != payload.data]
WithoutData(devices, data) == SelectSeq(devices, LAMBDA d : d # data)

\* the "add" assignments without the increment of bus.count
AddDevice_NoIncrement(bus, e, data) ==
    [id_devices |-> Append(bus.id_devices, e),
     devices |-> Append(bus.devices, data),
     count |-> bus.count]

\* the Bus object after the handler's "add device and increment" assignments
AddDevice(bus, e, data) ==
    [id_devices |-> Append(bus.id_devices, e),
     devices |-> Append(bus.devices, data),
     count |-> IncrementedCount(bus.count)]

\* the Bus object after the handler's "remove" assignments
RemoveDevice(bus, e, data) ==
    [id_devices |-> WithoutDevice(bus.id_devices, e),
     devices |-> WithoutData(bus.devices, data),
     count |-> DecrementedCount(bus.count)]

Response(code, message, count) ==
    [code |-> code, message |-> message, count |-> count]

\* the handler without the commit of the implicitly created row on the paths
\* that change nothing else
handle_device_event_NoImplicitInsert(d, kv, fb, payload, m) ==
    LET c == payload.id_bus
        e == payload.id_device
        bus == IF c \in DOMAIN d THEN d[c] ELSE NewBus(0)
        id_in_list == InList(e, bus.id_devices)
        unchanged(message) ==
            [db |-> d, kv |-> kv, fb |-> fb, pubs |-> <<>>,
             resp |-> Response(200, message, get_count(kv, fb, c, m))]
    IN
    IF payload.flag THEN
        IF id_in_list THEN unchanged("already present")
        ELSE
            LET r == incr_count(kv, fb, c, 1, m) IN
            [db |-> Put(d, c, AddDevice(bus, e, payload.data)),
             kv |-> r.kv, fb |-> r.fb, pubs |-> r.pubs,
             resp |-> Response(200, "added", r.ret)]
    ELSE
        IF ~id_in_list THEN unchanged("not present")
        ELSE
            LET r == decr_count(kv, fb, c, 1, m) IN
            [db |-> Put(d, c, RemoveDevice(bus, e, payload.data)),
             kv |-> r.kv, fb |-> r.fb, pubs |-> r.pubs,
             resp |-> Response(200, "removed", r.ret)]

\* the whole handler, one request at a time: the store, the mirror, the
\* dictionary, the published messages and the response it leaves
handle_device_event(d, kv, fb, payload, m) ==
    LET c == payload.id_bus
        e == payload.id_device
        bus == IF c \in DOMAIN d THEN d[c] ELSE NewBus(0)
        d1 == IF c \in DOMAIN d THEN d ELSE Put(d, c, bus)
        id_in_list == InList(e, bus.id_devices)
        unchanged(message) ==
            [db |-> d1, kv |-> kv, fb |-> fb, pubs |-> <<>>,
             resp |-> Response(200, message, get_count(kv, fb, c, m))]
    IN
    IF payload.flag THEN
        IF id_in_list THEN unchanged("already present")
        ELSE
            LET r == incr_count(kv, fb, c, 1, m) IN
            [db |-> Put(d1, c, AddDevice(bus, e, payload.data)),
             kv |-> r.kv, fb |-> r.fb, pubs |-> r.pubs,
             resp |-> Response(200, "added", r.ret)]
    ELSE
        IF ~id_in_list THEN unchanged("not present")
        ELSE
            LET r == decr_count(kv, fb, c, 1, m) IN
            [db |-> Put(d1, c, RemoveDevice(bus, e, payload.data)),
             kv |-> r.kv, fb |-> r.fb, pubs |-> r.pubs,
             resp |-> Response(200, "removed", r.ret)]

DeviceEventPayload(c, e, data, flag) ==
    [id_bus |-> c, id_device |-> e, data |-> data, flag |-> flag]

(***************************************************************************)
(* routers/buses.py: POST /buses and DELETE /buses/{id_bus}                *)
(***************************************************************************)
\* initial_count: int | None = 0; an integer or None
InitialCounts ==
    {[isNone |-> TRUE, value |-> 0]}
        \cup {[isNone |-> FALSE, value |-> n] :
                n \in (0 - MaxInitialCount)..MaxInitialCount}

\* int(payload.initial_count or 0)
IntOrZero(ic) == IF ic.isNone THEN 0 ELSE ic.value

\* create_bus without the lookup of an existing row
create_bus_NoConflictCheck(d, kv, fb, c, initial_count, m) ==
    LET r == set_count(kv, fb, c, IntOrZero(initial_count), m) IN
    [db |-> Put(d, c, NewBus(IntOrZero(initial_count))),
     kv |-> r.kv, fb |-> r.fb, pubs |-> r.pubs,
     resp |-> Response(200, "created", get_count(r.kv, r.fb, c, m))]

create_bus(d, kv, fb, c, initial_count, m) ==
    IF c \in DOMAIN d THEN
        [db |-> d, kv |-> kv, fb |-> fb, pubs |-> <<>>,
         resp |-> Response(409, "Bus already exists", 0)]
    ELSE
        LET r == set_count(kv, fb, c, IntOrZero(initial_count), m) IN
        [db |-> Put(d, c, NewBus(IntOrZero(initial_count))),
         kv |-> r.kv, fb |-> r.fb, pubs |-> r.pubs,
         resp |-> Response(200, "created", get_count(r.kv, r.fb, c, m))]

\* delete_bus resetting the count before it looks the row up
delete_bus_ResetsFirst(d, kv, fb, c, m) ==
    LET r == set_count(kv, fb, c, 0, m) IN
    IF c \notin DOMAIN d THEN
        [db |-> d, kv |-> r.kv, fb |-> r.fb, pubs |-> r.pubs,
         resp |-> Response(404, "Bus not found", 0)]
    ELSE
        [db |-> Drop(d, c), kv |-> r.kv, fb |-> r.fb, pubs |-> r.pubs,
         resp |-> Response(200, "deleted", 0)]

delete_bus(d, kv, fb, c, m) ==
    IF c \notin DOMAIN d THEN
        [db |-> d, kv |-> kv, fb |-> fb, pubs |-> <<>>,
         resp |-> Response(404, "Bus not found", 0)]
    ELSE
        LET r == set_count(kv, fb, c, 0, m) IN
        [db |-> Drop(d, c), kv |-> r.kv, fb |-> r.fb, pubs |-> r.pubs,
         resp |-> Response(200, "deleted", 0)]

(***************************************************************************)
(* main.py: the websocket /ws/{id_bus}, and subscribe_count of             *)
(* redis_client.py.  A connection is the record                            *)
(*   pc        position of websocket_bus_count                             *)
(*               "idle"       no connection                                *)
(*               "accepted"   websocket.accept() returned      (line 127)  *)
(*               "send"       initial = get_count(id_bus)      (line 129)  *)
(*               "subscribe"  the snapshot was sent            (line 130)  *)
(*               "poll"       subscribe_count returned, the    (lines      *)
(*                            handler is in its loop            132-144)   *)
(*               "closed"     the handler has ended            (145-151)   *)
(*   bus       the id_bus of the path                                      *)
(*   initial   the value get_count returned                                *)
(*   kind      what subscribe_count returned: a Redis pubsub or a _Dummy   *)
(*   inbox     the messages Redis has sent to the pubsub connection and    *)
(*             get_message has not returned yet                            *)
(*   received  the messages sent to the client with send_json              *)
(*   connected whether the client still holds its end of the connection    *)
(*   sent      the count changes of the container since subscribe_count    *)
(*             returned: for a pubsub the messages published on its        *)
(*             channel, for a _Dummy one message per successful create,    *)
(*             add, remove or delete                                       *)
(***************************************************************************)
NoSub ==
    [pc |-> "idle", bus |-> "", initial |-> 0, kind |-> "none",
     inbox |-> <<>>, received |-> <<>>, sent |-> <<>>, connected |-> FALSE]

\* f"{CHANNEL_PREFIX}{id_bus}": the messages of `pubs` on the channel of id
_channel_name(pubs, id) == SelectSeq(pubs, LAMBDA msg : msg.id_bus = id)

\* the responses of the calls that change a count
Mutations == {"created", "added", "removed", "deleted"}

\* the count change a handler result `r` stands for, as one message
CountChange(r, c, m) ==
    IF r.resp.code = 200 /\ r.resp.message \in Mutations
    THEN <<CountMessage(c, get_count(r.kv, r.fb, c, m))>>
    ELSE <<>>

\* a broker that hands every message to every pubsub connection, whatever
\* the channel
Fanout_Broadcast(s, r, c, m) ==
    IF s.pc # "poll" THEN s
    ELSE IF s.kind = "pubsub"
         THEN [s EXCEPT !.inbox = @ \o r.pubs, !.sent = @ \o r.pubs]
         ELSE [s EXCEPT !.sent = @ \o CountChange(r, c, m)]

\* r.publish as the connection sees it: Redis hands each message published
\* on a channel to the pubsub connections subscribed to it, in order; a
\* _Dummy is handed nothing
Fanout(s, r, c, m) ==
    IF s.pc # "poll" \/ s.bus # c THEN s
    ELSE IF s.kind = "pubsub"
         THEN [s EXCEPT !.inbox = @ \o _channel_name(r.pubs, s.bus),
                        !.sent = @ \o _channel_name(r.pubs, s.bus)]
         ELSE [s EXCEPT !.sent = @ \o CountChange(r, c, m)]

\* subscribe_count: a pubsub subscribed to the channel, or a _Dummy when
\* get_redis_client() returns None
subscribe_count(up) == IF up THEN "pubsub" ELSE "dummy"

\* a get_message that returns the oldest message and leaves it queued
pubsub_get_message_Peek(q) == [message |-> Head(q), rest |-> q]

\* pubsub.get_message(True, 1.0) with a message waiting: the oldest one
pubsub_get_message(q) == [message |-> Head(q), rest |-> Tail(q)]

\* _Dummy.get_message: after the sleep, the count in _FALLBACK_COUNTS
Dummy_get_message(fb, id) == CountMessage(id, FallbackGet(fb, id))

\* a message on the channel of id whose data is not JSON text
Malformed(id) == [id_bus |-> id, malformed |-> TRUE]

\* json.loads(data): whether it returns, and what
json_loads(msg) ==
    IF "count" \in DOMAIN msg THEN [ok |-> TRUE, payload |-> msg]
    ELSE [ok |-> FALSE, payload |-> msg]

\* the loop body handing on whatever get_message returned
LoopPayload_NoFallback(msg, kv, fb, id, m) == msg

\* the payload the loop sends for a message: json.loads(data), or a fresh
\* {"id_bus": id_bus, "count": get_count(id_bus)} when json.loads raises
LoopPayload(msg, kv, fb, id, m) ==
    IF json_loads(msg).ok THEN json_loads(msg).payload
    ELSE CountMessage(id, get_count(kv, fb, id, m))

(***************************************************************************)
(* The ledger, one HTTP call at a time.                                    *)
(***************************************************************************)
NoCall == [op |-> "none", bus |-> "", dev |-> "", flag |-> FALSE, mode |-> "ok"]

Call(op, c, e, flag, m) ==
    [op |-> op, bus |-> c, dev |-> e, flag |-> flag, mode |-> m]

Store(d, kv, fb) == [db |-> d, kv |-> kv, fb |-> fb]

\* a request slot with no request in it
IdleReq ==
    [pc |-> "idle", payload |-> DeviceEventPayload("", "", "", FALSE),
     bus |-> NewBus(0), resp |-> Response(0, "", 0)]

InitLedger ==
    /\ db = EmptyMap
    /\ redisKV = EmptyMap
    /\ fallback = EmptyMap
    /\ redisUp \in BOOLEAN
    /\ resp = Response(0, "", 0)
    /\ lastPub = <<>>
    /\ last = NoCall
    /\ repeated = FALSE

\* the model's cap on what would otherwise grow without bound: the mirrored
\* counts and the payload list
WithinBounds(r, c) ==
    /\ c \in DOMAIN r.kv => r.kv[c] <= MaxCached
    /\ c \in DOMAIN r.fb => r.fb[c] <= MaxCached
    /\ c \in DOMAIN r.db => Len(r.db[c].devices) <= MaxPayloadList

Commit(r) ==
    /\ db' = r.db
    /\ redisKV' = r.kv
    /\ fallback' = r.fb
    /\ lastPub' = r.pubs
    /\ resp' = r.resp

ReportMembership(c, e, data, flag, m) ==
    LET r == handle_device_event(db, redisKV, fallback,
                                 DeviceEventPayload(c, e, data, flag), m)
    IN
    /\ m \in Modes(redisUp)
    /\ WithinBounds(r, c)
    /\ Commit(r)
    /\ sub' = Fanout(sub, r, c, m)
    /\ last' = Call("report", c, e, flag, m)
    /\ repeated' = (flag /\ last = Call("report", c, e, flag, m))
    /\ UNCHANGED <<redisUp, reqs, base, batches, receiver>>

CreateContainer(c, initial_count, m) ==
    LET r == create_bus(db, redisKV, fallback, c, initial_count, m) IN
    /\ m \in Modes(redisUp)
    /\ Commit(r)
    /\ sub' = Fanout(sub, r, c, m)
    /\ last' = Call("create", c, "", FALSE, m)
    /\ repeated' = FALSE
    /\ UNCHANGED <<redisUp, reqs, base, batches, receiver>>

DeleteContainer(c, m) ==
    LET r == delete_bus(db, redisKV, fallback, c, m) IN
    /\ m \in Modes(redisUp)
    /\ Commit(r)
    /\ sub' = Fanout(sub, r, c, m)
    /\ last' = Call("delete", c, "", FALSE, m)
    /\ repeated' = FALSE
    /\ UNCHANGED <<redisUp, reqs, base, batches, receiver>>

\* the broker becomes unreachable: get_redis_client() returns None from now on
BrokerFail ==
    /\ redisUp
    /\ redisUp' = FALSE
    /\ UNCHANGED <<db, redisKV, fallback, resp, lastPub, last, repeated, reqs, base, batches, sub, receiver>>

\* the broker is reachable again, with the keys it had
BrokerRecover ==
    /\ ~redisUp
    /\ redisUp' = TRUE
    /\ UNCHANGED <<db, redisKV, fallback, resp, lastPub, last, repeated, reqs, base, batches, sub, receiver>>

Report ==
    \E c \in BusIds, e \in DeviceIds, data \in Payloads, flag \in BOOLEAN,
       m \in AllModes :
        ReportMembership(c, e, data, flag, m)

Create ==
    \E c \in BusIds, ic \in InitialCounts,
       m \in AllModes :
        CreateContainer(c, ic, m)

Delete ==
    \E c \in BusIds, m \in AllModes :
        DeleteContainer(c, m)

\* dict.get(k)
ReadFlag(flags, k) == IF k \in DOMAIN flags THEN Some(flags[k]) ELSE None

\* no call of on_ble_discovered is under way
IdleSlot == [pc |-> "idle"]

\* the receiver before the first callback
InitReceiver ==
    /\ now = 0
    /\ _seen = EmptyMap
    /\ _reported_flags = EmptyMap
    /\ workers = EmptyBag
    /\ posted = {}
    /\ lastEvent = [d \in DeviceIds |-> None]
    /\ hist = [d \in DeviceIds |-> <<>>]
    /\ ignored = FALSE
    /\ slot = IdleSlot
    /\ lbl = 0

Init ==
    /\ InitLedger
    /\ reqs = [i \in ReqIds |-> IdleReq]
    /\ base = Store(EmptyMap, EmptyMap, EmptyMap)
    /\ batches = 0
    /\ sub = NoSub
    /\ InitReceiver

Next == Report \/ Create \/ Delete \/ BrokerFail \/ BrokerRecover

\* create, delete and report calls one at a time, with broker outages
Spec == Init /\ [][Next]_vars

NextReport == Report \/ BrokerFail \/ BrokerRecover

\* report calls only, on containers they create implicitly
SpecReport == Init /\ [][NextReport]_vars

(***************************************************************************)
(* POST /devices/event handled concurrently.  FastAPI runs the handler of  *)
(* each request on its own worker thread with its own Session, so a        *)
(* request holds a private copy of the Bus row between its SELECT and its  *)
(* commit.  The steps are the handler's accesses to shared state:          *)
(*   load    db.get(Bus, id_bus)                         (line 27)         *)
(*   insert  db.add(bus); db.commit(); db.refresh(bus)   (lines 35-37)     *)
(*   decide  membership test on the private copy, then either the no-op   *)
(*           response with get_count, or the UPDATE      (lines 39-55,    *)
(*           of devices, id_devices and count             61-70)           *)
(*   cache   incr_count / decr_count and the response    (lines 56, 71)    *)
(***************************************************************************)
\* the broker mode of the concurrent runs: no outage starts or ends in them
SteadyMode == IF redisUp THEN "ok" ELSE "down"

AllSettled == \A i \in ReqIds : reqs[i].pc \in {"idle", "done"}

\* a group of requests for one container arrives together
Admit(c, payloads) ==
    /\ AllSettled
    /\ batches < MaxBatches
    /\ \A i \in ReqIds : payloads[i].id_bus = c
    /\ reqs' = [i \in ReqIds |->
                    [pc |-> "load", payload |-> payloads[i],
                     bus |-> NewBus(0), resp |-> Response(0, "", 0)]]
    /\ base' = Store(db, redisKV, fallback)
    /\ batches' = batches + 1
    /\ UNCHANGED <<db, redisKV, fallback, redisUp, resp, lastPub, last, repeated, sub, receiver>>

Load(i) ==
    LET c == reqs[i].payload.id_bus IN
    /\ reqs[i].pc = "load"
    /\ reqs' = [reqs EXCEPT ![i].pc = IF c \in DOMAIN db THEN "decide" ELSE "insert",
                            ![i].bus = IF c \in DOMAIN db THEN db[c] ELSE NewBus(0)]
    /\ UNCHANGED <<db, redisKV, fallback, redisUp, resp, lastPub, last, repeated, base, batches, sub, receiver>>

\* the INSERT of the implicitly created row; the primary key rejects a second
\* row for the same id_bus and the request ends with a server error
Insert(i) ==
    LET c == reqs[i].payload.id_bus IN
    /\ reqs[i].pc = "insert"
    /\ IF c \in DOMAIN db
       THEN /\ reqs' = [reqs EXCEPT ![i].pc = "done",
                                    ![i].resp = Response(500, "IntegrityError", 0)]
            /\ UNCHANGED db
       ELSE /\ db' = Put(db, c, reqs[i].bus)
            /\ reqs' = [reqs EXCEPT ![i].pc = "decide"]
    /\ UNCHANGED <<redisKV, fallback, redisUp, resp, lastPub, last, repeated, base, batches, sub, receiver>>

Decide(i) ==
    LET payload == reqs[i].payload
        c == payload.id_bus
        bus == reqs[i].bus
        id_in_list == InList(payload.id_device, bus.id_devices)
        count_now == get_count(redisKV, fallback, c, SteadyMode)
        changed == IF payload.flag
                   THEN AddDevice(bus, payload.id_device, payload.data)
                   ELSE RemoveDevice(bus, payload.id_device, payload.data)
    IN
    /\ reqs[i].pc = "decide"
    /\ IF payload.flag = id_in_list
       THEN /\ reqs' = [reqs EXCEPT
                  ![i].pc = "done",
                  ![i].resp = Response(200,
                                IF payload.flag THEN "already present"
                                                ELSE "not present",
                                count_now)]
            /\ UNCHANGED db
       ELSE /\ db' = Put(db, c, changed)
            /\ reqs' = [reqs EXCEPT ![i].pc = "cache", ![i].bus = changed]
    /\ UNCHANGED <<redisKV, fallback, redisUp, resp, lastPub, last, repeated, base, batches, sub, receiver>>

Cache(i) ==
    LET payload == reqs[i].payload
        c == payload.id_bus
        r == IF payload.flag
             THEN incr_count(redisKV, fallback, c, 1, SteadyMode)
             ELSE decr_count(redisKV, fallback, c, 1, SteadyMode)
    IN
    /\ reqs[i].pc = "cache"
    /\ redisKV' = r.kv
    /\ fallback' = r.fb
    /\ lastPub' = r.pubs
    /\ reqs' = [reqs EXCEPT
          ![i].pc = "done",
          ![i].resp = Response(200, IF payload.flag THEN "added" ELSE "removed",
                               r.ret)]
    /\ UNCHANGED <<db, redisUp, resp, last, repeated, base, batches, sub, receiver>>

RequestPayloads ==
    {DeviceEventPayload(c, e, data, flag) :
        c \in BusIds, e \in DeviceIds, data \in Payloads, flag \in BOOLEAN}

Arrive == \E c \in BusIds, payloads \in [ReqIds -> RequestPayloads] : Admit(c, payloads)

Loads == \E i \in ReqIds : Load(i)

Inserts == \E i \in ReqIds : Insert(i)

Decides == \E i \in ReqIds : Decide(i)

Caches == \E i \in ReqIds : Cache(i)

NextConc == Arrive \/ Loads \/ Inserts \/ Decides \/ Caches

\* groups of concurrent report calls for one container
SpecConc == Init /\ [][NextConc]_vars

\* the store after the requests of `order` are handled one at a time from `st`
RECURSIVE Serial(_, _, _)
Serial(st, order, m) ==
    IF order = <<>> THEN st
    ELSE LET r == handle_device_event(st.db, st.kv, st.fb,
                                      reqs[Head(order)].payload, m)
         IN Serial(Store(r.db, r.kv, r.fb), Tail(order), m)

\* every order of the requests in flight
Orders ==
    {o \in [1..NumRequests -> ReqIds] : \A i, j \in 1..NumRequests : i # j => o[i] # o[j]}

(***************************************************************************)
(* websocket_bus_count, step by step, beside the ledger calls.             *)
(***************************************************************************)
\* await websocket.accept()
WsAccept(c) ==
    /\ sub.pc = "idle"
    /\ sub' = [sub EXCEPT !.pc = "accepted", !.bus = c, !.connected = TRUE]
    /\ UNCHANGED <<db, redisKV, fallback, redisUp, resp, lastPub, last, repeated, reqs, base, batches, receiver>>

\* initial = get_count(id_bus)
WsReadInitial ==
    /\ sub.pc = "accepted"
    /\ sub' = [sub EXCEPT !.pc = "send",
                          !.initial = get_count(redisKV, fallback, sub.bus, SteadyMode)]
    /\ UNCHANGED <<db, redisKV, fallback, redisUp, resp, lastPub, last, repeated, reqs, base, batches, receiver>>

\* await websocket.send_json({"id_bus": id_bus, "count": int(initial)}); on
\* a connection the client has left send_json raises, outside the try
\* block, and the handler ends
WsSendInitial ==
    /\ sub.pc = "send"
    /\ sub' = IF sub.connected
              THEN [sub EXCEPT !.pc = "subscribe",
                               !.received = <<CountMessage(sub.bus, sub.initial)>>]
              ELSE [sub EXCEPT !.pc = "closed"]
    /\ UNCHANGED <<db, redisKV, fallback, redisUp, resp, lastPub, last, repeated, reqs, base, batches, receiver>>

\* pubsub = subscribe_count(id_bus)
WsSubscribe ==
    /\ sub.pc = "subscribe"
    /\ sub' = [sub EXCEPT !.pc = "poll", !.kind = subscribe_count(redisUp)]
    /\ UNCHANGED <<db, redisKV, fallback, redisUp, resp, lastPub, last, repeated, reqs, base, batches, receiver>>

\* one turn of the loop on a Redis pubsub with a message waiting:
\* get_message, json.loads, send_json.  With nothing waiting get_message
\* returns None after the timeout and the loop continues without sending.
\* send_json on a connection the client has left raises; the handler leaves
\* the loop and the finally clause closes the pubsub.
WsDeliver ==
    /\ sub.pc = "poll" /\ sub.kind = "pubsub"
    /\ redisUp
    /\ sub.inbox # <<>>
    /\ LET got == pubsub_get_message(sub.inbox)
           payload == LoopPayload(got.message, redisKV, fallback, sub.bus,
                                  SteadyMode)
       IN
       sub' = IF sub.connected
              THEN [sub EXCEPT !.received = Append(@, payload),
                               !.inbox = got.rest]
              ELSE [sub EXCEPT !.pc = "closed", !.inbox = <<>>]
    /\ UNCHANGED <<db, redisKV, fallback, redisUp, resp, lastPub, last, repeated, reqs, base, batches, receiver>>

\* one turn of the loop on a _Dummy: get_message sleeps for the timeout and
\* returns the fallback count as a message, which is sent
WsDummyPoll ==
    /\ sub.pc = "poll" /\ sub.kind = "dummy"
    /\ sub.connected => Len(sub.received) < MaxMessages + 1
    /\ LET payload == LoopPayload(Dummy_get_message(fallback, sub.bus),
                                  redisKV, fallback, sub.bus, SteadyMode)
       IN
       sub' = IF sub.connected
              THEN [sub EXCEPT !.received = Append(@, payload)]
              ELSE [sub EXCEPT !.pc = "closed"]
    /\ UNCHANGED <<db, redisKV, fallback, redisUp, resp, lastPub, last, repeated, reqs, base, batches, receiver>>

\* the broker went away under a Redis pubsub: get_message raises a
\* connection error, which the handler does not catch; the finally clause
\* closes the pubsub and the connection ends
WsBrokerLost ==
    /\ sub.pc = "poll" /\ sub.kind = "pubsub"
    /\ ~redisUp
    /\ sub' = [sub EXCEPT !.pc = "closed", !.inbox = <<>>]
    /\ UNCHANGED <<db, redisKV, fallback, redisUp, resp, lastPub, last, repeated, reqs, base, batches, receiver>>

\* the client closes its end of the connection
WsDisconnect ==
    /\ sub.pc \in {"accepted", "send", "subscribe", "poll"}
    /\ sub.connected
    /\ sub' = [sub EXCEPT !.connected = FALSE]
    /\ UNCHANGED <<db, redisKV, fallback, redisUp, resp, lastPub, last, repeated, reqs, base, batches, receiver>>

\* another Redis client publishes data that is not JSON text on the channel
\* of container c
ForeignPublish(c) ==
    /\ redisUp
    /\ sub.pc = "poll" /\ sub.kind = "pubsub" /\ sub.bus = c
    /\ Len(sub.sent) < MaxMessages
    /\ sub' = [sub EXCEPT !.inbox = Append(@, Malformed(c)),
                          !.sent = Append(@, Malformed(c))]
    /\ UNCHANGED <<db, redisKV, fallback, redisUp, resp, lastPub, last, repeated, reqs, base, batches, receiver>>

\* the payload of the device events sent while a client is connected
WsPayloads == {"p1"}

\* the entity of the device events sent across broker outages while a
\* client is connected
WsDevices == {"D1"}

\* the model's cap on the messages of one connection
WsWithinBounds == Len(sub'.sent) <= MaxMessages

\* the ledger calls made while a client may be connected, the broker
\* working during each of them
WsLedgerUp ==
    /\ \/ \E c \in BusIds, e \in DeviceIds, data \in WsPayloads, flag \in BOOLEAN :
              ReportMembership(c, e, data, flag, "ok")
       \/ \E c \in BusIds, ic \in InitialCounts : CreateContainer(c, ic, "ok")
       \/ \E c \in BusIds : DeleteContainer(c, "ok")
    /\ WsWithinBounds

\* the same calls, the broker reachable or not during each of them
WsLedger ==
    /\ \/ \E c \in BusIds, e \in WsDevices, data \in WsPayloads, flag \in BOOLEAN :
              ReportMembership(c, e, data, flag, SteadyMode)
       \/ \E c \in BusIds : CreateContainer(c, [isNone |-> TRUE, value |-> 0], SteadyMode)
       \/ \E c \in BusIds : DeleteContainer(c, SteadyMode)
    /\ WsWithinBounds

WsConnect == \E c \in BusIds : WsAccept(c)

InitUp == Init /\ redisUp

NextFanout ==
    WsLedgerUp \/ WsConnect \/ WsReadInitial \/ WsSendInitial \/ WsSubscribe
        \/ WsDeliver

\* one client connecting to /ws/{id_bus} beside ledger calls, the broker
\* reachable throughout; the handler's loop keeps running, so a message
\* that waits in the pubsub is eventually taken
SpecFanout == InitUp /\ [][NextFanout]_vars /\ WF_vars(WsDeliver)

WsForeign == \E c \in BusIds : ForeignPublish(c)

NextWs ==
    WsLedger \/ WsConnect \/ WsReadInitial \/ WsSendInitial \/ WsSubscribe
        \/ WsDeliver \/ WsDisconnect \/ WsForeign

\* one client of /ws/{id_bus} that may leave, beside ledger calls and
\* foreign messages on the channel, the broker reachable throughout; the
\* handler's loop keeps running
SpecWs == InitUp /\ [][NextWs]_vars /\ WF_vars(WsDeliver)

NextSub ==
    WsLedger \/ BrokerFail \/ BrokerRecover \/ WsConnect \/ WsReadInitial
        \/ WsSendInitial \/ WsSubscribe \/ WsDeliver \/ WsDummyPoll
        \/ WsBrokerLost

\* one client connecting to /ws/{id_bus} beside ledger calls, with broker
\* outages
SpecSub == Init /\ [][NextSub]_vars

(***************************************************************************)
(* priemnik/ble_iphone_counter_qt.py: the receiver.                        *)
(*                                                                         *)
(* on_ble_discovered is the slot of the signal the CoreBluetooth delegate  *)
(* emits and _tick a QTimer callback; the api-event threads started by     *)
(* _post_device_event_async run beside them.  Discover is a call of the    *)
(* slot that runs to its end before the next callback; SlotRead, SlotFlags *)
(* and SlotWrite are a call in the steps self._lock divides it into, with  *)
(* the ticks the lock lets in between them.                                *)
(*                                                                         *)
(* An Optional value is <<>> for None and <<x>> for the value x.  A name   *)
(* is a sequence of characters.  Time is counted in half seconds.  A       *)
(* smoothed RSSI is an exact fraction [num, den].  A distance d in metres  *)
(* is held as 10 * n * log10(d), the path loss in dB it is computed from:  *)
(* d = 10 ** (loss / (10 * n)), so d <= RADIUS_M = 1.0 is loss <= 0.       *)
(***************************************************************************)
\* RADIUS_M = 1.0, as 10 * n * log10(RADIUS_M)
RADIUS_M_DB == 0
PATH_LOSS_N == 2
TXPOWER_FALLBACK == -59
TTL_SEC == 8
\* TTL_GRACE_SEC = 0.5 s
TTL_GRACE_HALVES == 1
\* RSSI_EMA_ALPHA = 0.35 = 7 / 20
ALPHA_NUM == 7
ALPHA_DEN == 20
RSSI_OUTLIER_DB == 12
NAME_SUBSTR == <<"i", "p", "h", "o", "n", "e">>
\* the container the receiver reports to
ID_BUS == "B1"

\* the bounds of the receiver's runs: the clock, the api-event threads alive
\* at the same time, the smoothing steps since a record last had no smoothed
\* value
MaxTime == 36
MaxWorkers == 2
MaxSmoothSteps == 1

\* the peripheral identifiers, names, signal strengths and TxPower levels
\* CoreBluetooth delivers
IdInputs == {None} \cup {Some(d) : d \in DeviceIds}
NameInputs ==
    {None, Some(<<>>), Some(<<"i", "P", "h", "o", "n", "e">>),
     Some(<<"i", "P", "a", "d">>)}
RssiInputs == {None, Some(-58), Some(-64)}
TxInputs == {None, Some(-65)}
\* the time that passes between two callbacks: TTL + grace, and half a
\* second more
AdvanceSteps ==
    {2 * TTL_SEC + TTL_GRACE_HALVES, 2 * TTL_SEC + TTL_GRACE_HALVES + 1}

Min(a, b) == IF a <= b THEN a ELSE b

Abs(x) == IF x < 0 THEN -x ELSE x

RECURSIVE GCD(_, _)
GCD(a, b) == IF b = 0 THEN a ELSE GCD(b, a % b)

\* the float n / d, d > 0
Rat(n, d) == LET g == GCD(Abs(n), d) IN [num |-> n \div g, den |-> d \div g]

\* int(x) of a float: the fraction is cut off, towards zero
int(q) == IF q.num >= 0 THEN q.num \div q.den ELSE -((-q.num) \div q.den)

Uppers == <<"A", "D", "E", "H", "I", "N", "O", "P">>
Lowers == <<"a", "d", "e", "h", "i", "n", "o", "p">>

\* str.lower()
lower(s) ==
    [i \in 1..Len(s) |->
        IF \E j \in 1..Len(Uppers) : Uppers[j] = s[i]
        THEN Lowers[CHOOSE j \in 1..Len(Uppers) : Uppers[j] = s[i]]
        ELSE s[i]]

\* part in s
Contains(part, s) ==
    \E i \in 0..(Len(s) - Len(part)) : SubSeq(s, i + 1, i + Len(part)) = part

\* the early returns of on_ble_discovered: no identifier, no name, a name
\* without the substring
Accepted(payload) ==
    /\ payload.identifier # None /\ Val(payload.identifier) # ""
    /\ payload.name # None /\ Val(payload.name) # <<>>
    /\ Contains(NAME_SUBSTR, lower(Val(payload.name)))

\* EMA with the outlier cut; prev is the Optional record of the identifier
Smooth(prev, rssi) ==
    IF rssi = None THEN None
    ELSE
        LET raw_rssi == Val(rssi) IN
        IF prev # None /\ Val(prev).smoothed_rssi # None THEN
            LET s == Val(Val(prev).smoothed_rssi)
                \* (raw_rssi - prev.smoothed_rssi) * s.den
                diff == raw_rssi * s.den - s.num
                sign == IF diff > 0 THEN 1 ELSE -1
                r_eff ==
                    IF Abs(diff) > RSSI_OUTLIER_DB * s.den
                    THEN int(Rat(s.num + sign * RSSI_OUTLIER_DB * s.den, s.den))
                    ELSE raw_rssi
            IN Some(Rat(ALPHA_NUM * r_eff * s.den + (ALPHA_DEN - ALPHA_NUM) * s.num,
                        ALPHA_DEN * s.den))
        ELSE Some(Rat(raw_rssi, 1))

\* max(0.1, min(d, 100.0)) of d = 10 ** ((tp - int(rssi)) / (10.0 * n))
_estimate_distance_m(rssi, tx_power) ==
    IF rssi = None THEN None
    ELSE
        LET tp == IF tx_power # None /\ -80 <= Val(tx_power) /\ Val(tx_power) <= -30
                  THEN Val(tx_power) ELSE TXPOWER_FALLBACK
        IN Some(Max(-10 * PATH_LOSS_N, Min(tp - Val(rssi), 20 * PATH_LOSS_N)))

BleSeen(identifier, name, rssi, tx_power, last_seen_ts, last_distance_m, smoothed_rssi, last_within_radius, last2_within_radius, reported_in_bus) ==
    [identifier |-> identifier, name |-> name, rssi |-> rssi,
     tx_power |-> tx_power, last_seen_ts |-> last_seen_ts,
     last_distance_m |-> last_distance_m, smoothed_rssi |-> smoothed_rssi,
     last_within_radius |-> last_within_radius,
     last2_within_radius |-> last2_within_radius,
     reported_in_bus |-> reported_in_bus]

BlePayload(identifier, name, rssi, tx_power, ts) ==
    [identifier |-> identifier, name |-> name, rssi |-> rssi,
     tx_power |-> tx_power, ts |-> ts]

\* the record on_ble_discovered builds for an accepted payload
NewRecord(seen, flags, payload) ==
    LET id == Val(payload.identifier)
        prev == IF id \in DOMAIN seen THEN Some(seen[id]) ELSE None
        smoothed_rssi == Smooth(prev, payload.rssi)
        dist_new == _estimate_distance_m(
                        IF smoothed_rssi # None THEN Some(int(Val(smoothed_rssi)))
                        ELSE payload.rssi,
                        payload.tx_power)
        within == dist_new # None /\ Val(dist_new) <= RADIUS_M_DB
        last2_within == IF prev # None THEN Val(prev).last_within_radius ELSE None
        prev_reported == IF id \in DOMAIN flags THEN Some(flags[id]) ELSE None
    IN BleSeen(id, payload.name, payload.rssi, payload.tx_power, payload.ts,
               dist_new, smoothed_rssi, Some(within), last2_within, prev_reported)

\* self._seen after the slot has handled the payload
on_ble_discovered_NoFilter(seen, flags, payload) ==
    IF payload.identifier = None THEN seen
    ELSE Put(seen, Val(payload.identifier), NewRecord(seen, flags, payload))

on_ble_discovered(seen, flags, payload) ==
    IF ~Accepted(payload) THEN seen
    ELSE Put(seen, Val(payload.identifier), NewRecord(seen, flags, payload))

\* now - rec.last_seen_ts > (TTL_SEC + TTL_GRACE_SEC)
Stale_AtLimit(rec, t) == t - rec.last_seen_ts >= 2 * TTL_SEC + TTL_GRACE_HALVES

Stale(rec, t) == t - rec.last_seen_ts > 2 * TTL_SEC + TTL_GRACE_HALVES

inside_now_BothSamples(rec) ==
    IF rec.last_within_radius # None
    THEN Val(rec.last_within_radius) /\ rec.last2_within_radius = Some(TRUE)
    ELSE rec.last_distance_m # None /\ Val(rec.last_distance_m) <= RADIUS_M_DB

inside_now(rec) ==
    IF rec.last_within_radius # None
    THEN Val(rec.last_within_radius) \/ rec.last2_within_radius = Some(TRUE)
    ELSE rec.last_distance_m # None /\ Val(rec.last_distance_m) <= RADIUS_M_DB

\* the `data` of a device event
EventData(rec) ==
    [distance |-> rec.last_distance_m, rssi |-> rec.rssi,
     smoothed_rssi |-> rec.smoothed_rssi, radius_m |-> RADIUS_M_DB,
     ts |-> rec.last_seen_ts, name |-> rec.name]

\* what the pass of _tick does with one record that is not stale: the flag
\* it leaves in the record and in _reported_flags, and the flag of the
\* event it hands to _post_device_event_async, if any
Evaluate_ReportsFirstExit(rec) ==
    LET prev_flag == rec.reported_in_bus
        cur_flag == inside_now(rec)
    IN IF prev_flag = Some(cur_flag) THEN [flag |-> prev_flag, post |-> None]
       ELSE [flag |-> Some(cur_flag), post |-> Some(cur_flag)]

Evaluate_Resends(rec) ==
    LET cur_flag == inside_now(rec)
    IN [flag |-> Some(cur_flag), post |-> IF cur_flag THEN Some(TRUE) ELSE None]

\* Evaluate without the transition from inside to outside
Evaluate_NeverExits(rec) ==
    LET prev_flag == rec.reported_in_bus
        cur_flag == inside_now(rec)
    IN IF prev_flag = None THEN
           IF cur_flag THEN [flag |-> Some(TRUE), post |-> Some(TRUE)]
           ELSE [flag |-> Some(FALSE), post |-> None]
       ELSE IF ~Val(prev_flag) /\ cur_flag THEN
           [flag |-> Some(TRUE), post |-> Some(TRUE)]
       ELSE [flag |-> prev_flag, post |-> None]

Evaluate(rec) ==
    LET prev_flag == rec.reported_in_bus
        cur_flag == inside_now(rec)
    IN IF prev_flag = None THEN
           IF cur_flag THEN [flag |-> Some(TRUE), post |-> Some(TRUE)]
           ELSE [flag |-> Some(FALSE), post |-> None]
       ELSE IF Val(prev_flag) # cur_flag THEN
           [flag |-> Some(cur_flag), post |-> Some(cur_flag)]
       ELSE [flag |-> prev_flag, post |-> None]

\* _tick at time t: the records kept, the registry of reported flags, the
\* events handed to _post_device_event_async, and the count for self.lbl
_tick_EvaluatesStale(seen, flags, t) ==
    LET live == {k \in DOMAIN seen : ~Stale(seen[k], t)}
        posting == {k \in DOMAIN seen : Evaluate(seen[k]).post # None}
    IN [seen |-> [k \in live |->
                    [seen[k] EXCEPT !.reported_in_bus = Evaluate(seen[k]).flag]],
        flags |-> [k \in (DOMAIN flags) \cup (DOMAIN seen) |->
                    IF k \in DOMAIN seen THEN Val(Evaluate(seen[k]).flag) ELSE flags[k]],
        posts |-> {DeviceEventPayload(ID_BUS, k, EventData(seen[k]),
                                      Val(Evaluate(seen[k]).post)) : k \in posting},
        count |-> Cardinality({k \in live : inside_now(seen[k])})]

_tick(seen, flags, t) ==
    LET live == {k \in DOMAIN seen : ~Stale(seen[k], t)}
        posting == {k \in live : Evaluate(seen[k]).post # None}
    IN [seen |-> [k \in live |->
                    [seen[k] EXCEPT !.reported_in_bus = Evaluate(seen[k]).flag]],
        flags |-> [k \in (DOMAIN flags) \cup live |->
                    IF k \in live THEN Val(Evaluate(seen[k]).flag) ELSE flags[k]],
        posts |-> {DeviceEventPayload(ID_BUS, k, EventData(seen[k]),
                                      Val(Evaluate(seen[k]).post)) : k \in posting},
        count |-> Cardinality({k \in live : inside_now(seen[k])})]

\* CoreBluetooth reports a peripheral and the slot handles the payload
Discover(payload) ==
    /\ payload.ts = now
    /\ _seen' = on_ble_discovered(_seen, _reported_flags, payload)
    /\ hist' = IF Accepted(payload)
               THEN LET id == Val(payload.identifier) IN
                    [hist EXCEPT ![id] =
                        <<Val(_seen'[id].last_within_radius)>>
                            \o (IF hist[id] = <<>> THEN <<>> ELSE <<hist[id][1]>>)]
               ELSE hist
    /\ posted' = {}
    /\ ignored' = ~Accepted(payload)
    /\ UNCHANGED lbl
    /\ UNCHANGED <<now, _reported_flags, workers, lastEvent, slot>>
    /\ UNCHANGED ledger

\* the QTimer fires
Tick ==
    LET r == _tick(_seen, _reported_flags, now) IN
    /\ BagCardinality(workers) + Cardinality(r.posts) <= MaxWorkers
    /\ _seen' = r.seen
    /\ _reported_flags' = r.flags
    /\ workers' = workers (+) SetToBag(r.posts)
    /\ posted' = r.posts
    /\ lastEvent' = [d \in DeviceIds |->
                        IF \E ev \in r.posts : ev.id_device = d
                        THEN Some((CHOOSE ev \in r.posts : ev.id_device = d).flag)
                        ELSE lastEvent[d]]
    /\ ignored' = FALSE
    /\ lbl' = r.count
    /\ UNCHANGED <<now, hist, slot>>
    /\ UNCHANGED ledger

\* time passes
Advance(d) ==
    /\ now + d <= MaxTime
    /\ now' = now + d
    /\ posted' = {}
    /\ ignored' = FALSE
    /\ UNCHANGED lbl
    /\ UNCHANGED <<_seen, _reported_flags, workers, lastEvent, hist, slot>>
    /\ UNCHANGED ledger

\* an api-event thread: urlopen delivers the POST and the ledger handles it
\* (whether the response then arrives in time or not)
WorkerPost(w) ==
    LET r == handle_device_event(db, redisKV, fallback, w, SteadyMode) IN
    /\ BagIn(w, workers)
    /\ WithinBounds(r, w.id_bus)
    /\ Commit(r)
    /\ sub' = Fanout(sub, r, w.id_bus, SteadyMode)
    /\ last' = Call("report", w.id_bus, w.id_device, w.flag, SteadyMode)
    /\ repeated' = (w.flag /\ last = Call("report", w.id_bus, w.id_device, w.flag, SteadyMode))
    /\ workers' = workers (-) SetToBag({w})
    /\ posted' = {}
    /\ UNCHANGED <<redisUp, reqs, base, batches>>
    /\ ignored' = FALSE
    /\ UNCHANGED lbl
    /\ UNCHANGED <<now, _seen, _reported_flags, lastEvent, hist, slot>>

\* an api-event thread whose POST does not reach the handler: HTTPError,
\* URLError (a timeout among them) or another exception, logged
WorkerFail_Retries(w) ==
    /\ BagIn(w, workers)
    /\ workers' = workers
    /\ posted' = {}
    /\ ignored' = FALSE
    /\ UNCHANGED lbl
    /\ UNCHANGED <<now, _seen, _reported_flags, lastEvent, hist, slot>>
    /\ UNCHANGED ledger

WorkerFail(w) ==
    /\ BagIn(w, workers)
    /\ workers' = workers (-) SetToBag({w})
    /\ posted' = {}
    /\ ignored' = FALSE
    /\ UNCHANGED lbl
    /\ UNCHANGED <<now, _seen, _reported_flags, lastEvent, hist, slot>>
    /\ UNCHANGED ledger

\* the payloads of one peripheral called iPhone, and the payloads the slot
\* returns from early: no identifier, no name, an empty name, another name
IPhoneName == Some(<<"i", "P", "h", "o", "n", "e">>)

BleInputs ==
    {BlePayload(Some("D1"), IPhoneName, rssi, tx_power, now) :
        rssi \in RssiInputs, tx_power \in TxInputs}
    \cup {BlePayload(None, IPhoneName, Some(-58), None, now)}
    \cup {BlePayload(Some("D1"), name, Some(-58), None, now) :
              name \in NameInputs \ {IPhoneName}}

\* the model's cap on the blends that follow one another in a record: at
\* most n since the record last had no smoothed value
SmoothWithinBounds(n) ==
    \A k \in DOMAIN _seen' :
        _seen'[k].smoothed_rssi # None
            => Val(_seen'[k].smoothed_rssi).den <= ALPHA_DEN ^ n

Discovered ==
    /\ \E payload \in BleInputs : Discover(payload)
    /\ SmoothWithinBounds(MaxSmoothSteps)

\* two peripherals called iPhone: one near or without a signal strength,
\* the other near
DiscoveredNear ==
    \/ \E rssi \in {None, Some(-58)} :
           Discover(BlePayload(Some("D1"), IPhoneName, rssi, None, now))
    \/ Discover(BlePayload(Some("D2"), IPhoneName, Some(-58), None, now))

\* the signal strengths of a peripheral that moves between near and far
WideRssi == {-90, -75, -64, -58, -45, -30}

\* one peripheral called iPhone whose signal strength jumps
DiscoveredWide ==
    /\ \E rssi \in WideRssi :
           Discover(BlePayload(Some("D1"), IPhoneName, Some(rssi), None, now))
    /\ SmoothWithinBounds(MaxSmoothSteps + 1)

\* the slot alone: the smoothing of the payloads of one peripheral
SpecSmooth == InitUp /\ [][DiscoveredWide]_vars

\* a tick after the api-event threads of the ticks before it have ended
TickAlone == workers = EmptyBag /\ Tick

Advances == \E d \in AdvanceSteps : Advance(d)

WorkerPosts == \E w \in BagToSet(workers) : WorkerPost(w)

WorkerFails == \E w \in BagToSet(workers) : WorkerFail(w)

NextPresence == Discovered \/ TickAlone \/ Advances \/ WorkerFails

\* the receiver and one peripheral, no POST reaching the ledger
SpecPresence == InitUp /\ [][NextPresence]_vars

NextDispatch == DiscoveredNear \/ Tick \/ WorkerPosts \/ WorkerFails

\* the receiver, two peripherals and the ledger it reports to, the broker
\* reachable
SpecDispatch == InitUp /\ [][NextDispatch]_vars

\* one peripheral called iPhone, near or without a signal strength
DiscoveredAlone ==
    \E rssi \in {None, Some(-58)} :
        Discover(BlePayload(Some("D1"), IPhoneName, rssi, None, now))

NextEvict == DiscoveredAlone \/ TickAlone \/ Advances \/ WorkerPosts \/ WorkerFails

\* the receiver, one peripheral that may fall silent, and the ledger it
\* reports to, the broker reachable
SpecEvict == InitUp /\ [][NextEvict]_vars

\* on_ble_discovered, lines 348-364: the early returns, then self._seen.get
\* under the lock
SlotRead(payload) ==
    /\ slot = IdleSlot
    /\ payload.ts = now
    /\ slot' = IF Accepted(payload)
               THEN [pc |-> "read", payload |-> payload,
                     prev |-> IF Val(payload.identifier) \in DOMAIN _seen
                              THEN Some(_seen[Val(payload.identifier)]) ELSE None]
               ELSE IdleSlot
    /\ posted' = {}
    /\ ignored' = ~Accepted(payload)
    /\ UNCHANGED lbl
    /\ UNCHANGED <<now, _seen, _reported_flags, workers, lastEvent, hist>>
    /\ UNCHANGED ledger

\* lines 365-401: the smoothing and the distance from the local prev, then
\* self._reported_flags.get, outside the lock
SlotFlags ==
    /\ slot.pc = "read"
    /\ slot' = [pc |-> "flags", payload |-> slot.payload, prev |-> slot.prev,
                prev_reported |-> ReadFlag(_reported_flags, Val(slot.payload.identifier))]
    /\ posted' = {}
    /\ ignored' = FALSE
    /\ UNCHANGED lbl
    /\ UNCHANGED <<now, _seen, _reported_flags, workers, lastEvent, hist>>
    /\ UNCHANGED ledger

\* lines 403-417: the record built from the locals, stored under the lock
SlotWrite ==
    /\ slot.pc = "flags"
    /\ LET id == Val(slot.payload.identifier)
           seen == IF slot.prev = None THEN EmptyMap ELSE Put(EmptyMap, id, Val(slot.prev))
           flags == IF slot.prev_reported = None THEN EmptyMap
                    ELSE Put(EmptyMap, id, Val(slot.prev_reported))
       IN /\ _seen' = Put(_seen, id, NewRecord(seen, flags, slot.payload))
          /\ hist' = [hist EXCEPT ![id] =
                        <<Val(_seen'[id].last_within_radius)>>
                            \o (IF hist[id] = <<>> THEN <<>> ELSE <<hist[id][1]>>)]
    /\ slot' = IdleSlot
    /\ posted' = {}
    /\ ignored' = FALSE
    /\ UNCHANGED lbl
    /\ UNCHANGED <<now, _reported_flags, workers, lastEvent>>
    /\ UNCHANGED ledger

SlotReads ==
    \E rssi \in {None, Some(-58)} :
        SlotRead(BlePayload(Some("D1"), IPhoneName, rssi, None, now))

NextRace == SlotReads \/ SlotFlags \/ SlotWrite \/ TickAlone \/ WorkerFails

\* the slot in its steps and the tick, one peripheral that comes near and
\* loses its signal strength, no time passing
SpecRace == InitUp /\ [][NextRace]_vars

NextOrder == DiscoveredAlone \/ Tick \/ WorkerPosts

\* the receiver, one peripheral and the ledger, every POST delivered, the
\* api-event threads of successive ticks alive together
SpecOrder == InitUp /\ [][NextOrder]_vars

\* two containers, named by the calls in any order
PairIds == {"B1", "B2"}

PairReport ==
    \E c \in PairIds, flag \in BOOLEAN, m \in AllModes :
        ReportMembership(c, "D1", "p1", flag, m)

\* no initial_count, and the largest
PairInitialCounts ==
    {[isNone |-> TRUE, value |-> 0], [isNone |-> FALSE, value |-> MaxInitialCount]}

PairCreate ==
    \E c \in PairIds, ic \in PairInitialCounts, m \in AllModes :
        CreateContainer(c, ic, m)

PairDelete == \E c \in PairIds, m \in AllModes : DeleteContainer(c, m)

NextPair == PairReport \/ PairCreate \/ PairDelete

\* the ledger calls on two containers, the broker reachable throughout (a
\* publish may still fail) or unreachable throughout
SpecPair == Init /\ [][NextPair]_vars

\* the ledger calls on two containers while a client may be connected to
\* one of them
PairWsLedger ==
    /\ \/ \E c \in PairIds, flag \in BOOLEAN :
              ReportMembership(c, "D1", "p1", flag, SteadyMode)
       \/ \E c \in PairIds :
              CreateContainer(c, [isNone |-> TRUE, value |-> 0], SteadyMode)
       \/ \E c \in PairIds : DeleteContainer(c, SteadyMode)
    /\ WsWithinBounds

PairWsConnect == \E c \in PairIds : WsAccept(c)

PairWsForeign == \E c \in PairIds : ForeignPublish(c)

NextIso ==
    PairWsLedger \/ PairWsConnect \/ WsReadInitial \/ WsSendInitial
        \/ WsSubscribe \/ WsDeliver \/ WsDummyPoll \/ PairWsForeign

\* one client of /ws/{id_bus} of one of two containers beside the ledger
\* calls on both and foreign messages, the broker reachable throughout or
\* unreachable throughout
SpecIso == Init /\ [][NextIso]_vars

(***************************************************************************)
(* What the claims read.                                                   *)
(***************************************************************************)
MembersOf(d, c) == IF c \in DOMAIN d THEN d[c].id_devices ELSE <<>>

PayloadsOf(d, c) == IF c \in DOMAIN d THEN d[c].devices ELSE <<>>

CountOf(d, c) == IF c \in DOMAIN d THEN d[c].count ELSE 0

IsMember(d, c, e) == \E i \in 1..Len(MembersOf(d, c)) : MembersOf(d, c)[i] = e

\* what a caller of get_count reads now
CachedCount(c) == get_count(redisKV, fallback, c, SteadyMode)

\* the broker was reachable, or unreachable, for the whole call
WholeCallModes == {"ok", "down"}

(***************************************************************************)
(* C1: after every reportMembership call, on containers created only by    *)
(* such calls, every stored record has count >= 0 and count equal to the   *)
(* number of ids in its member list.                                       *)
(***************************************************************************)
C1_CountIsMemberCount ==
    \A c \in DOMAIN db :
        /\ db[c].count >= 0
        /\ db[c].count = Len(db[c].id_devices)

\* a remove has brought a container of two members down to one
C1_Witness ==
    /\ last.op = "report"
    /\ resp.message = "removed"
    /\ \E c \in DOMAIN db : db[c].count = 1 /\ Len(db[c].id_devices) = 1

(***************************************************************************)
(* C2: a present=true report repeated right after the same report, the     *)
(* broker reachable during both calls or unreachable during both, answers  *)
(* "already present" with the count the first call returned, leaves the    *)
(* record unchanged and publishes nothing.                                 *)
(***************************************************************************)
C2_IdempotentAdd ==
    [][\A c \in BusIds, e \in DeviceIds, data \in Payloads, m \in WholeCallModes :
          (/\ last = Call("report", c, e, TRUE, m)
           /\ ReportMembership(c, e, data, TRUE, m))
          => /\ resp'.message = "already present"
             /\ resp'.count = resp.count
             /\ c \in DOMAIN db /\ db' = db
             /\ lastPub' = <<>>]_vars

\* the second of two identical present=true reports has been answered, the
\* first having added the entity as the second member
C2_Witness ==
    /\ repeated
    /\ last.op = "report" /\ last.flag
    /\ last.mode \in WholeCallModes
    /\ resp.message = "already present"
    /\ resp.count = 2

(***************************************************************************)
(* C3: a present=true report for a non-member appends the entity and the   *)
(* payload, raises the stored count by exactly 1, publishes a count-change *)
(* event (required here only of a call during which the broker works) and  *)
(* answers "added" with the stored count after the increment.              *)
(***************************************************************************)
C3_AddReturnsStoredCount ==
    [][\A c \in BusIds, e \in DeviceIds, data \in Payloads, m \in AllModes :
          (/\ ~IsMember(db, c, e)
           /\ ReportMembership(c, e, data, TRUE, m))
          => /\ c \in DOMAIN db'
             /\ db'[c].id_devices = Append(MembersOf(db, c), e)
             /\ db'[c].devices = Append(PayloadsOf(db, c), data)
             /\ db'[c].count = CountOf(db, c) + 1
             /\ m = "ok" => Len(lastPub') = 1
             /\ resp'.message = "added"
             /\ resp'.count = db'[c].count]_vars

(***************************************************************************)
(* C4: a present=false report for a member removes the entity, lowers the  *)
(* stored count by 1 but not below 0, publishes a count-change event       *)
(* (required here only of a call during which the broker works) and        *)
(* answers "removed" with the stored count after the decrement.            *)
(***************************************************************************)
C4_RemoveReturnsStoredCount ==
    [][\A c \in BusIds, e \in DeviceIds, data \in Payloads, m \in AllModes :
          (/\ IsMember(db, c, e)
           /\ ReportMembership(c, e, data, FALSE, m))
          => /\ ~IsMember(db', c, e)
             /\ db'[c].count = Max(0, db[c].count - 1)
             /\ m = "ok" => Len(lastPub') = 1
             /\ resp'.message = "removed"
             /\ resp'.count = db'[c].count]_vars

(***************************************************************************)
(* C5: a present=false report for a non-member answers "not present" with  *)
(* the current count of the container, changes neither its member list,    *)
(* its payload list nor its count, and publishes nothing; right after a    *)
(* successful remove of the same entity it answers with the same count.    *)
(***************************************************************************)
C5_RedundantRemoveIsNoOp ==
    [][\A c \in BusIds, e \in DeviceIds, data \in Payloads, m \in AllModes :
          (/\ ~IsMember(db, c, e)
           /\ ReportMembership(c, e, data, FALSE, m))
          => /\ resp'.message = "not present"
             /\ resp'.count = CountOf(db, c)
             /\ MembersOf(db', c) = MembersOf(db, c)
             /\ PayloadsOf(db', c) = PayloadsOf(db, c)
             /\ CountOf(db', c) = CountOf(db, c)
             /\ lastPub' = <<>>
             /\ (last.op = "report" /\ last.bus = c /\ last.dev = e
                    /\ ~last.flag /\ resp.message = "removed")
                 => resp'.count = resp.count]_vars

(***************************************************************************)
(* C6: in every state reached by create, delete and report calls every     *)
(* stored record has count equal to the number of ids in its member list.  *)
(***************************************************************************)
C6_CountIsMemberCountWithCreate ==
    \A c \in DOMAIN db : db[c].count = Len(db[c].id_devices)

(***************************************************************************)
(* C7: the count of a container is never negative, neither in the stored   *)
(* record nor as returned by get_count.                                    *)
(***************************************************************************)
C7_CountNeverNegative ==
    \A c \in BusIds :
        /\ c \in DOMAIN db => db[c].count >= 0
        /\ CachedCount(c) >= 0

(***************************************************************************)
(* C8: the member list of a container never holds the same entity id       *)
(* twice.                                                                  *)
(***************************************************************************)
C8_NoDuplicateMembers ==
    \A c \in DOMAIN db :
        \A i, j \in 1..Len(db[c].id_devices) :
            i # j => db[c].id_devices[i] # db[c].id_devices[j]

\* a present=true report for the second of two members has been turned away
C8_Witness ==
    /\ last.op = "report" /\ last.flag
    /\ resp.message = "already present"
    /\ Len(MembersOf(db, last.bus)) = 2
    /\ MembersOf(db, last.bus)[2] = last.dev

(***************************************************************************)
(* C9: when the requests of a group handled concurrently have all been     *)
(* answered, the member list, the stored count and the cached count of the *)
(* container are those some one-at-a-time order of the same requests       *)
(* leaves.  Stated of the groups whose requests were all answered with     *)
(* status 200: a request that lost the race of two implicit creations ends *)
(* with a server error, which no one-at-a-time order produces either.      *)
(***************************************************************************)
LedgerView(st, c, m) ==
    [members |-> MembersOf(st.db, c),
     count |-> CountOf(st.db, c),
     cached |-> get_count(st.kv, st.fb, c, m)]

C9_Linearized ==
    (batches > 0 /\ \A i \in ReqIds : reqs[i].pc = "done" /\ reqs[i].resp.code = 200)
    => LET c == reqs[1].payload.id_bus IN
       \E o \in Orders :
           LedgerView(Serial(base, o, SteadyMode), c, SteadyMode)
               = LedgerView(Store(db, redisKV, fallback), c, SteadyMode)

(***************************************************************************)
(* C10: across broker outages get_count of every container that has a      *)
(* record, and the count of every reportMembership response, equal the     *)
(* stored count of the container.                                          *)
(***************************************************************************)
C10_CachedCountIsStoredCount ==
    /\ \A c \in DOMAIN db : CachedCount(c) = db[c].count
    /\ last.op = "report" => resp.count = CountOf(db, last.bus)

(***************************************************************************)
(* C11: POST /buses for an id that has a record answers 409, leaves the    *)
(* table, the Redis keys and the fallback dictionary as they were and       *)
(* publishes nothing; for an id without a record it stores a record with    *)
(* empty member and payload lists and count initial_count (0 when omitted), *)
(* and get_count of that id then returns that value.                        *)
(***************************************************************************)
C11_CreateConflictOrCreate ==
    [][\A c \in BusIds, ic \in InitialCounts, m \in AllModes :
          (/\ last' = Call("create", c, "", FALSE, m)
           /\ CreateContainer(c, ic, m))
          => IF c \in DOMAIN db
             THEN /\ resp'.code = 409
                  /\ db' = db /\ redisKV' = redisKV /\ fallback' = fallback
                  /\ lastPub' = <<>>
             ELSE /\ resp'.code = 200
                  /\ c \in DOMAIN db'
                  /\ db'[c].id_devices = <<>>
                  /\ db'[c].devices = <<>>
                  /\ db'[c].count = (IF ic.isNone THEN 0 ELSE ic.value)
                  /\ get_count(redisKV', fallback', c, m) = db'[c].count
                  /\ resp'.count = db'[c].count]_vars

\* an explicit create has been turned away from a container that has a member
C11_Witness ==
    /\ last.op = "create"
    /\ resp.code = 409
    /\ last.bus \in DOMAIN db
    /\ Len(db[last.bus].id_devices) = 1
    /\ CachedCount(last.bus) = 1

(***************************************************************************)
(* C12: DELETE /buses/{id} for an id without a record answers 404, leaves   *)
(* the table, the Redis keys and the fallback dictionary as they were and   *)
(* publishes nothing.                                                       *)
(***************************************************************************)
C12_DeleteMissingIsNotFound ==
    [][\A c \in BusIds, m \in AllModes :
          (/\ c \notin DOMAIN db
           /\ last' = Call("delete", c, "", FALSE, m)
           /\ DeleteContainer(c, m))
          => /\ resp'.code = 404
             /\ db' = db /\ redisKV' = redisKV /\ fallback' = fallback
             /\ lastPub' = <<>>]_vars

\* a delete has been turned away while Redis still holds a positive count
\* under the key of the container
C12_Witness ==
    /\ last.op = "delete"
    /\ resp.code = 404
    /\ last.bus \notin DOMAIN db
    /\ last.bus \in DOMAIN redisKV
    /\ redisKV[last.bus] > 0

(***************************************************************************)
(* C13: DELETE /buses/{id} for an id with a record removes the record,     *)
(* makes get_count of the id return 0 and publishes a count-change event    *)
(* with count 0 (required here only of a call during which the broker       *)
(* works); the next present=true report for the id answers "added" with     *)
(* count 1.                                                                 *)
(***************************************************************************)
C13_DeleteResetsContainer ==
    [][/\ \A c \in BusIds, m \in AllModes :
              (/\ c \in DOMAIN db
               /\ last' = Call("delete", c, "", FALSE, m)
               /\ DeleteContainer(c, m))
              => /\ resp'.code = 200
                 /\ c \notin DOMAIN db'
                 /\ get_count(redisKV', fallback', c, m) = 0
                 /\ m = "ok" => lastPub' = <<CountMessage(c, 0)>>
       /\ \A c \in BusIds, e \in DeviceIds, data \in Payloads, m \in AllModes :
              (/\ last = Call("delete", c, "", FALSE, last.mode)
               /\ resp.code = 200
               /\ ReportMembership(c, e, data, TRUE, m))
              => /\ resp'.message = "added"
                 /\ resp'.count = 1]_vars

(***************************************************************************)
(* C14: get_count returns 0 for every id that has no container record, in  *)
(* every state reached by create, delete and report calls with broker      *)
(* outages between them.                                                    *)
(***************************************************************************)
C14_UnknownContainerCountsZero ==
    \A c \in BusIds : c \notin DOMAIN db => CachedCount(c) = 0

C16_OneEventPerMutation ==
    [][\A c \in BusIds :
          (last'.bus = c /\ last'.mode = "ok"
              /\ (\/ \E e \in DeviceIds, data \in Payloads, flag \in BOOLEAN :
                        ReportMembership(c, e, data, flag, "ok")
                  \/ \E ic \in InitialCounts : CreateContainer(c, ic, "ok")
                  \/ DeleteContainer(c, "ok")))
          => IF resp'.code = 200
                  /\ resp'.message \in {"created", "added", "removed", "deleted"}
             THEN lastPub' = <<CountMessage(c, CountOf(db', c))>>
             ELSE lastPub' = <<>>]_vars

(***************************************************************************)
(* C17: the count of the first message a client of /ws/{c} is sent is the  *)
(* count of the record of c when the handler reads it after accepting the  *)
(* connection (0 when c has no record), and that message is the first one  *)
(* sent, before any message taken from the subscription.                   *)
(***************************************************************************)
C17_FirstMessageIsCurrentCount ==
    /\ [][WsReadInitial => sub'.initial = CountOf(db, sub.bus)]_vars
    /\ [](sub.pc \in {"subscribe", "poll", "closed"}
            => /\ Len(sub.received) >= 1
               /\ sub.received[1] = CountMessage(sub.bus, sub.initial))

(***************************************************************************)
(* C18: with the broker reachable, once subscribe_count has returned, the  *)
(* messages sent to the client after the snapshot followed by the messages *)
(* still waiting in the pubsub are the messages published on the channel   *)
(* of the container since then, in the order published; and every          *)
(* published message is eventually sent to the client.                     *)
(***************************************************************************)
C18_EveryEventOnceInOrder ==
    /\ []((sub.pc = "poll" /\ sub.kind = "pubsub")
            => Tail(sub.received) \o sub.inbox = sub.sent)
    /\ \A k \in 1..MaxMessages :
           (Len(sub.sent) >= k) ~> (Len(sub.received) > k)

\* the client has been sent the snapshot and then two published counts that
\* differ, and nothing waits in the pubsub
C18_Witness ==
    /\ sub.pc = "poll" /\ sub.kind = "pubsub"
    /\ Len(sub.sent) = 2
    /\ sub.sent[1].count # sub.sent[2].count
    /\ Tail(sub.received) = sub.sent
    /\ sub.inbox = <<>>

(***************************************************************************)
(* C19: for every interleaving of a client connecting to /ws/{c} with      *)
(* ledger calls on c, the broker reachable throughout, once the handler is *)
(* in its loop and no message waits in the pubsub, the count of the last   *)
(* message sent to the client is the count get_count returns for c.        *)
(***************************************************************************)
C19_NoChangeLostBeforeSubscribe ==
    (sub.pc = "poll" /\ sub.kind = "pubsub" /\ sub.inbox = <<>>)
    => sub.received[Len(sub.received)].count = CachedCount(sub.bus)

(***************************************************************************)
(* C20: a client whose subscribe_count found the broker unreachable is     *)
(* sent the snapshot and after it one message per count change of the      *)
(* container, in order: the messages after the snapshot are the first of   *)
(* the count changes since subscribe_count returned.                       *)
(***************************************************************************)
C20_FallbackParity ==
    (sub.pc = "poll" /\ sub.kind = "dummy")
    => /\ sub.received[1] = CountMessage(sub.bus, sub.initial)
       /\ Len(sub.received) - 1 <= Len(sub.sent)
       /\ Tail(sub.received) = SubSeq(sub.sent, 1, Len(sub.received) - 1)

(***************************************************************************)
(* C21: when the message the loop takes from the pubsub is not JSON text,  *)
(* the client is sent {id_bus: c, count: get_count(c)} with the count read *)
(* at that moment, the handler stays in its loop with the subscription     *)
(* open, and the messages queued behind it are still delivered, in order.  *)
(***************************************************************************)
C21_MalformedReplacedBySnapshot ==
    /\ [][(/\ sub.pc = "poll" /\ sub.connected /\ sub.inbox # <<>>
           /\ ~json_loads(Head(sub.inbox)).ok
           /\ WsDeliver)
          => /\ sub'.received =
                    Append(sub.received, CountMessage(sub.bus, CachedCount(sub.bus)))
             /\ sub'.pc = "poll"
             /\ sub'.kind = "pubsub"
             /\ sub'.inbox = Tail(sub.inbox)]_vars
    /\ [](sub.pc = "poll"
            => \A i \in 1..Len(sub.received) :
                   /\ "count" \in DOMAIN sub.received[i]
                   /\ sub.received[i].id_bus = sub.bus)
    /\ \A k \in 1..MaxMessages :
           (sub.connected /\ Len(sub.sent) >= k)
               ~> (~sub.connected \/ Len(sub.received) > k)

\* the client has been sent the snapshot 0, then the replacement of a
\* malformed message, carrying the count 1 read when it was taken, then the
\* published count 0 that followed the malformed message
C21_Witness ==
    /\ sub.pc = "poll" /\ sub.connected
    /\ Len(sub.sent) = 2 /\ Len(sub.received) = 3
    /\ ~json_loads(sub.sent[1]).ok
    /\ sub.received[1] = CountMessage(sub.bus, 0)
    /\ sub.received[2] = CountMessage(sub.bus, 1)
    /\ sub.received[3] = sub.sent[2]
    /\ sub.received[3].count = 0

(***************************************************************************)
(* C22: once the client has disconnected, the handler eventually leaves    *)
(* its loop and closes the subscription, whether or not any message is     *)
(* published on the channel afterwards.                                    *)
(***************************************************************************)
C22_DisconnectReleasesSubscription ==
    (sub.pc = "poll" /\ ~sub.connected) ~> (sub.pc = "closed")

(***************************************************************************)
(* Claims about the receiver.                                              *)
(***************************************************************************)
\* self._reported_flags.get(k)
ReportedFlag(k) ==
    IF k \in DOMAIN _reported_flags THEN Some(_reported_flags[k]) ELSE None

\* the record of k holds a distance estimate within the radius
EstimatedWithin(rec) ==
    rec.last_distance_m # None /\ Val(rec.last_distance_m) <= RADIUS_M_DB

\* the step hands an enter (flag = TRUE) or exit (flag = FALSE) event of k
\* to _post_device_event_async
Posts(k, flag) == \E ev \in posted' : ev.id_device = k /\ ev.flag = flag

(***************************************************************************)
(* C23: fast entry.  Whenever the latest accepted observation of an entity *)
(* estimated a distance within the radius, the entity's derived presence   *)
(* is true whatever the samples before it were; and the next tick at which *)
(* the entity is not stale hands over an enter event, and sets the flag,   *)
(* if the last reported flag is null or false.                             *)
(***************************************************************************)
C23_FastEntry ==
    /\ [](\A k \in DOMAIN _seen :
            /\ _seen[k].reported_in_bus = ReportedFlag(k)
            /\ hist[k] # <<>>
            /\ hist[k][1] = EstimatedWithin(_seen[k])
            /\ EstimatedWithin(_seen[k]) => inside_now(_seen[k]))
    /\ [][\A k \in DOMAIN _seen :
            (/\ Tick
             /\ ~Stale(_seen[k], now)
             /\ EstimatedWithin(_seen[k])
             /\ ReportedFlag(k) \in {None, Some(FALSE)})
            => /\ Posts(k, TRUE)
               /\ ~Posts(k, FALSE)
               /\ _reported_flags'[k] = TRUE
               /\ _seen'[k].reported_in_bus = Some(TRUE)]_vars

\* an enter event has just been handed over for an entity whose latest
\* sample was within the radius and whose sample before it was outside,
\* after an exit event
C23_Witness ==
    /\ hist["D1"] = <<TRUE, FALSE>>
    /\ \E ev \in posted : ev.id_device = "D1" /\ ev.flag
    /\ "D1" \in DOMAIN _seen /\ _seen["D1"].reported_in_bus = Some(TRUE)
    /\ BagCardinality(workers) = 1

(***************************************************************************)
(* C24: slow exit.  Over any sequence of observations and ticks, evictions *)
(* and re-creations included, an exit event is handed over for an entity   *)
(* only when its two most recent accepted observations were both outside   *)
(* the radius.                                                             *)
(***************************************************************************)
C24_SlowExit ==
    [][\A k \in DeviceIds :
          (Tick /\ Posts(k, FALSE))
          => /\ Len(hist[k]) = 2
             /\ ~hist[k][1]
             /\ ~hist[k][2]]_vars

(***************************************************************************)
(* C25: first evaluation.  At a tick that evaluates an entity whose last   *)
(* reported flag is null: if the derived presence is true an enter event   *)
(* is handed over and the flag becomes true; if it is false nothing is     *)
(* handed over and the flag becomes false.  So the first event of an       *)
(* entity is an enter, never an exit.                                      *)
(***************************************************************************)
C25_FirstEvaluation ==
    /\ [][\A k \in DOMAIN _seen :
            (/\ Tick
             /\ ~Stale(_seen[k], now)
             /\ ReportedFlag(k) = None)
            => /\ _seen[k].reported_in_bus = None
               /\ IF inside_now(_seen[k])
                  THEN /\ Posts(k, TRUE)
                       /\ ~Posts(k, FALSE)
                       /\ ReportedFlag(k)' = Some(TRUE)
                  ELSE /\ ~Posts(k, TRUE)
                       /\ ~Posts(k, FALSE)
                       /\ ReportedFlag(k)' = Some(FALSE)]_vars
    /\ [][\A k \in DeviceIds :
            (lastEvent[k] = None /\ lastEvent'[k] # None)
                => Posts(k, TRUE) /\ lastEvent'[k] = Some(TRUE)]_vars
    /\ [](\A k \in DeviceIds : lastEvent[k] # None => ReportedFlag(k) # None)

\* the first evaluation of an entity found it outside the radius: its flag
\* is false and no event has ever been handed over for it
C25_Witness ==
    /\ "D1" \in DOMAIN _seen
    /\ ReportedFlag("D1") = Some(FALSE)
    /\ _seen["D1"].reported_in_bus = Some(FALSE)
    /\ lastEvent["D1"] = None
    /\ workers = EmptyBag

(***************************************************************************)
(* C26: exactly one event per transition.  At each tick, for each entity   *)
(* that is not stale, an event is handed over if and only if the derived   *)
(* presence differs from the last reported flag (or the flag is null and   *)
(* the presence true), at most one per entity, and the flag is then the    *)
(* flag of the event; only a tick hands over events.  Hence the events of  *)
(* one entity alternate enter, exit, enter, ...: none repeats the one      *)
(* before it.                                                              *)
(***************************************************************************)
C26_OneEventPerTransition ==
    /\ [][\A k \in DOMAIN _seen :
            (Tick /\ ~Stale(_seen[k], now))
            => LET present == inside_now(_seen[k])
                   differs == \/ ReportedFlag(k) = None /\ present
                              \/ ReportedFlag(k) = Some(~present)
               IN /\ (Posts(k, TRUE) \/ Posts(k, FALSE)) <=> differs
                  /\ Cardinality({ev \in posted' : ev.id_device = k}) <= 1
                  /\ Posts(k, present) <=> differs
                  /\ ReportedFlag(k)' = Some(present)]_vars
    /\ [][posted' # {} => Tick]_vars
    /\ [][\A k \in DeviceIds, flag \in BOOLEAN :
            Posts(k, flag)
                => /\ lastEvent[k] # Some(flag)
                   /\ lastEvent'[k] = Some(flag)
                   /\ lastEvent[k] = None => flag]_vars

\* an exit event has just been handed over for an entity after two samples
\* outside the radius, its enter event having been handed over before
C26_Witness ==
    /\ hist["D1"] = <<FALSE, FALSE>>
    /\ \E ev \in posted : ev.id_device = "D1" /\ ~ev.flag
    /\ Cardinality(posted) = 1
    /\ lastEvent["D1"] = Some(FALSE)
    /\ ReportedFlag("D1") = Some(FALSE)

(***************************************************************************)
(* C27: TTL eviction.  A tick removes from the active set every entity     *)
(* with now - last_seen > TTL + grace and keeps every entity with          *)
(* now - last_seen <= TTL + grace; an accepted observation sets last_seen  *)
(* to its time, so the entity is kept by a tick that follows within        *)
(* TTL + grace.                                                            *)
(***************************************************************************)
C27_TtlEviction ==
    /\ [][Tick =>
            /\ DOMAIN _seen' =
                   {k \in DOMAIN _seen :
                       now - _seen[k].last_seen_ts <= 2 * TTL_SEC + TTL_GRACE_HALVES}
            /\ \A k \in DOMAIN _seen' :
                   _seen'[k].last_seen_ts = _seen[k].last_seen_ts]_vars
    /\ [][\A payload \in BleInputs :
            (/\ Discover(payload)
             /\ payload.identifier = Some("D1")
             /\ payload.name = IPhoneName)
            => /\ "D1" \in DOMAIN _seen'
               /\ _seen'["D1"].last_seen_ts = now
               /\ ("D1" \in DOMAIN _seen => _seen["D1"].last_seen_ts <= now)]_vars
    /\ [](\A k \in DOMAIN _seen : _seen[k].last_seen_ts <= now)

\* a record evicted 9 s after its only payload was created again by a
\* payload at that time, and the tick 8.5 s later has evaluated and kept it
C27_Witness ==
    /\ now = 4 * TTL_SEC + 2 * TTL_GRACE_HALVES + 1
    /\ "D1" \in DOMAIN _seen
    /\ _seen["D1"].last_seen_ts = 2 * TTL_SEC + TTL_GRACE_HALVES + 1
    /\ _seen["D1"].last2_within_radius = None
    /\ Len(hist["D1"]) = 2
    /\ posted # {}

(***************************************************************************)
(* C28: eviction is silent.  The tick that evicts a stale entity hands     *)
(* over no event for it, does not evaluate its presence, and leaves its    *)
(* last reported flag as it was.                                           *)
(***************************************************************************)
C28_SilentEviction ==
    [][\A k \in DOMAIN _seen :
          (Tick /\ now - _seen[k].last_seen_ts > 2 * TTL_SEC + TTL_GRACE_HALVES)
          => /\ k \notin DOMAIN _seen'
             /\ ~Posts(k, TRUE)
             /\ ~Posts(k, FALSE)
             /\ ReportedFlag(k)' = ReportedFlag(k)
             /\ lastEvent'[k] = lastEvent[k]]_vars

\* an entity seen once, within the radius, has been evicted before any tick
\* evaluated it: it has no flag and no event
C28_Witness ==
    /\ "D1" \notin DOMAIN _seen
    /\ hist["D1"] = <<TRUE>>
    /\ ReportedFlag("D1") = None
    /\ lastEvent["D1"] = None
    /\ posted = {}

(***************************************************************************)
(* C30: an observation whose identifier is missing, whose name is missing, *)
(* or whose name, in lower case, does not contain the filter substring     *)
(* changes nothing: no record is created or updated, last_seen is not      *)
(* refreshed, and neither the hysteresis history nor the reported flag     *)
(* changes.                                                                *)
(***************************************************************************)
C30_FilteredObservationIsNoOp ==
    [][\A payload \in BleInputs :
          (/\ Discover(payload)
           /\ \/ payload.identifier = None
              \/ payload.name = None
              \/ ~Contains(NAME_SUBSTR, lower(Val(payload.name))))
          => /\ _seen' = _seen
             /\ _reported_flags' = _reported_flags
             /\ hist' = hist
             /\ lastEvent' = lastEvent
             /\ workers' = workers
             /\ posted' = {}
             /\ ignored']_vars

\* the slot has returned early from a payload 8.5 s or more after the last
\* accepted payload of a known entity, whose record and flag are as before
C30_Witness ==
    /\ ignored
    /\ "D1" \in DOMAIN _seen
    /\ _seen["D1"].last_seen_ts < now
    /\ _seen["D1"].last_within_radius = Some(TRUE)
    /\ ReportedFlag("D1") = Some(TRUE)

(***************************************************************************)
(* C29: at-most-once, non-blocking delivery.  Every event a tick detects   *)
(* starts one api-event thread, and nothing else starts one; a thread      *)
(* makes at most one POST /devices/event reach the ledger and then ends;   *)
(* a thread whose POST fails ends without another attempt, changes nothing *)
(* in the receiver or the ledger, and the last reported flag keeps its new *)
(* value; and a tick evaluates every entity of the active set whatever     *)
(* became of the threads started before.                                   *)
(***************************************************************************)
C29_AtMostOnceDelivery ==
    /\ [][workers' # workers =>
            \/ /\ Tick
               /\ workers' = workers (+) SetToBag(posted')
            \/ \E w \in BagToSet(workers) :
                  /\ workers' = workers (-) SetToBag({w})
                  /\ BagCardinality(workers') = BagCardinality(workers) - 1
                  /\ UNCHANGED <<_seen, _reported_flags, lastEvent>>
                  /\ \/ UNCHANGED ledger
                     \/ /\ last' = Call("report", w.id_bus, w.id_device, w.flag, SteadyMode)
                        /\ db' = handle_device_event(db, redisKV, fallback, w, SteadyMode).db]_vars
    /\ [][\A w \in BagToSet(workers) :
            WorkerFail(w)
            => /\ workers' = workers (-) SetToBag({w})
               /\ UNCHANGED <<_seen, _reported_flags, lastEvent, ledger>>]_vars
    /\ [][ledger' # ledger => workers' # workers]_vars
    /\ [][Tick => \A k \in DOMAIN _seen :
                     ReportedFlag(k)' = Some(inside_now(_seen[k]))]_vars

\* one tick has handed over the enter events of two entities; the POST of
\* one failed and the POST of the other was handled: both flags are true,
\* no thread is left, and the ledger has the second entity only
C29_Witness ==
    /\ workers = EmptyBag
    /\ ReportedFlag("D1") = Some(TRUE)
    /\ ReportedFlag("D2") = Some(TRUE)
    /\ lastEvent["D1"] = Some(TRUE)
    /\ lastEvent["D2"] = Some(TRUE)
    /\ MembersOf(db, ID_BUS) = <<"D2">>
    /\ resp.message = "added"

(***************************************************************************)
(* C31: the payload list stays parallel to the member list.  In every      *)
(* state reachable by report calls, whose exit payload may differ from the *)
(* payload of the matching enter, the payload list of a container is as    *)
(* long as its member list.                                                *)
(***************************************************************************)
C31_PayloadsParallel ==
    \A c \in DOMAIN db : Len(db[c].devices) = Len(db[c].id_devices)

\* an api-event thread holding an event of k is alive
Pending(k) == \E w \in BagToSet(workers) : w.id_device = k

(***************************************************************************)
(* C32: eviction can leave the ledger inflated.  The tick that evicts an   *)
(* entity whose flag is true hands over no exit and keeps the flag; while  *)
(* the entity is out of the active set no event is handed over for it, its *)
(* flag does not change, and only an accepted observation brings it back;  *)
(* so once its enter has been delivered and no thread holds an event of    *)
(* it, the ledger keeps it as a member for as long as it is not observed   *)
(* again.  The witness is the execution the claim says exists.             *)
(***************************************************************************)
C32_EvictionLeavesLedgerInflated ==
    /\ [][\A k \in DOMAIN _seen :
            (Tick /\ k \notin DOMAIN _seen' /\ ReportedFlag(k) = Some(TRUE))
            => /\ ~Posts(k, FALSE)
               /\ ReportedFlag(k)' = Some(TRUE)]_vars
    /\ [][\A k \in DeviceIds :
            k \notin DOMAIN _seen
            => /\ ~Posts(k, TRUE)
               /\ ~Posts(k, FALSE)
               /\ ReportedFlag(k)' = ReportedFlag(k)
               /\ k \in DOMAIN _seen' => DiscoveredAlone
               /\ (~Pending(k) /\ InList(k, MembersOf(db, ID_BUS)))
                     => /\ ~Pending(k)'
                        /\ InList(k, MembersOf(db', ID_BUS))]_vars

\* the enter of an entity was delivered and counted, the entity fell
\* silent and was evicted with its flag true, and 9 s later still it is a
\* member of the container, no thread holding an event of it
C32_Witness ==
    /\ "D1" \notin DOMAIN _seen
    /\ ReportedFlag("D1") = Some(TRUE)
    /\ lastEvent["D1"] = Some(TRUE)
    /\ workers = EmptyBag
    /\ MembersOf(db, ID_BUS) = <<"D1">>
    /\ CountOf(db, ID_BUS) = 1
    /\ now = 2 * (2 * TTL_SEC + TTL_GRACE_HALVES + 1)

(***************************************************************************)
(* C33: every entity of the active set has a smoothed signal strength,     *)
(* whatever observations, with or without a signal strength, it was built  *)
(* from.                                                                   *)
(***************************************************************************)
C33_SmoothedDefined ==
    \A k \in DOMAIN _seen : _seen[k].smoothed_rssi # None

\* alpha * e + (1 - alpha) * s, with e the raw sample clamped to
\* [s - threshold, s + threshold] and not rounded
ExactBlend(s, raw) ==
    LET e == IF raw * s.den > s.num + RSSI_OUTLIER_DB * s.den
                 THEN Rat(s.num + RSSI_OUTLIER_DB * s.den, s.den)
             ELSE IF raw * s.den < s.num - RSSI_OUTLIER_DB * s.den
                 THEN Rat(s.num - RSSI_OUTLIER_DB * s.den, s.den)
             ELSE Rat(raw, 1)
    IN Rat(ALPHA_NUM * e.num * s.den + (ALPHA_DEN - ALPHA_NUM) * s.num * e.den,
           ALPHA_DEN * e.den * s.den)

(***************************************************************************)
(* C34: smoothing is the clamped exponential blend for every input.  With  *)
(* no smoothed value before, the new value is the raw sample; otherwise it *)
(* is alpha * e + (1 - alpha) * s_prev, e the raw sample clamped to        *)
(* [s_prev - threshold, s_prev + threshold] exactly, for every raw sample  *)
(* and every previous value, the non-integer ones included.                *)
(***************************************************************************)
C34_ClampedBlend ==
    [][\A raw \in WideRssi :
          Discover(BlePayload(Some("D1"), IPhoneName, Some(raw), None, now))
          => _seen'["D1"].smoothed_rssi =
                 IF "D1" \in DOMAIN _seen /\ _seen["D1"].smoothed_rssi # None
                 THEN Some(ExactBlend(Val(_seen["D1"].smoothed_rssi), raw))
                 ELSE Some(Rat(raw, 1))]_vars

(***************************************************************************)
(* C35: the event-dispatch workers alive at the same time are bounded by a *)
(* pool: a tick that detects N >= 2 transitions at once does not start N   *)
(* workers.                                                                *)
(***************************************************************************)
C35_BoundedWorkerPool ==
    [][(Tick /\ Cardinality(posted') >= 2)
          => BagCardinality(workers') - BagCardinality(workers)
                 < Cardinality(posted')]_vars

C37_ContainersIndependent ==
    [][\A c \in PairIds : \A b \in PairIds \ {c} :
          (\/ \E flag \in BOOLEAN, m \in AllModes :
                  ReportMembership(c, "D1", "p1", flag, m)
           \/ \E ic \in PairInitialCounts, m \in AllModes : CreateContainer(c, ic, m)
           \/ \E m \in AllModes : DeleteContainer(c, m))
          => /\ (b \in DOMAIN db') = (b \in DOMAIN db)
             /\ b \in DOMAIN db => db'[b] = db[b]
             /\ (b \in DOMAIN redisKV') = (b \in DOMAIN redisKV)
             /\ RedisGet(redisKV', b) = RedisGet(redisKV, b)
             /\ (b \in DOMAIN fallback') = (b \in DOMAIN fallback)
             /\ FallbackGet(fallback', b) = FallbackGet(fallback, b)
             /\ CachedCount(b)' = CachedCount(b)
             /\ _channel_name(lastPub', b) = <<>>]_vars

\* container B1 has just been deleted, with a message published for it,
\* while container B2 holds a member and counts 1
C37_Witness ==
    /\ last.op = "delete" /\ last.bus = "B1" /\ resp.code = 200
    /\ lastPub = <<CountMessage("B1", 0)>>
    /\ MembersOf(db, "B2") = <<"D1">>
    /\ CountOf(db, "B2") = 1
    /\ CachedCount("B2") = 1

(***************************************************************************)
(* C38: the events of one entity reach the ledger in emission order.  When *)
(* every event handed over for an entity has been delivered and handled,   *)
(* the events of successive ticks each by its own api-event thread, the    *)
(* entity is a member of the container if and only if its last reported    *)
(* flag is true.                                                           *)
(***************************************************************************)
C38_EmissionOrder ==
    \A k \in DeviceIds :
        (lastEvent[k] # None /\ ~Pending(k))
            => (IsMember(db, ID_BUS, k) <=> ReportedFlag(k) = Some(TRUE))

(***************************************************************************)
(* C39: after every tick, for every entity that remains in the active set, *)
(* the last reported flag, in the record and in the registry, is not null  *)
(* and equals the entity's derived presence (latest sample within the      *)
(* radius, or the sample before it within the radius); hence the number    *)
(* the receiver shows is the number of active entities whose last reported *)
(* flag is true.                                                           *)
(***************************************************************************)
C39_FlagIsPresenceAfterTick ==
    [][Tick
         => /\ \A k \in DOMAIN _seen' :
                 LET rec == _seen'[k]
                     present == \/ rec.last_within_radius = Some(TRUE)
                                \/ rec.last2_within_radius = Some(TRUE)
                 IN /\ rec.reported_in_bus = Some(present)
                    /\ ReportedFlag(k)' = Some(present)
            /\ lbl' = Cardinality({k \in DOMAIN _seen' :
                                      ReportedFlag(k)' = Some(TRUE)})]_vars

\* a tick has just handed over the enter event of an entity whose latest
\* sample is outside the radius and the one before it within, and shows 1
C39_Witness ==
    /\ \E ev \in posted : ev.id_device = "D1" /\ ev.flag
    /\ "D1" \in DOMAIN _seen
    /\ _seen["D1"].last_within_radius = Some(FALSE)
    /\ _seen["D1"].last2_within_radius = Some(TRUE)
    /\ _seen["D1"].reported_in_bus = Some(TRUE)
    /\ ReportedFlag("D1") = Some(TRUE)
    /\ lbl = 1

(***************************************************************************)
(* C40: channel isolation.  Every message a subscriber of container A      *)
(* receives, the initial snapshot included, names A as its id_bus,         *)
(* whatever calls are made on other containers: with a broker pubsub, with *)
(* the in-process fallback object, and when a malformed message is         *)
(* replaced by a snapshot.                                                 *)
(***************************************************************************)
C40_ChannelIsolation ==
    \A i \in 1..Len(sub.received) :
        /\ sub.received[i].id_bus = sub.bus
        /\ "count" \in DOMAIN sub.received[i]

\* a subscriber of B1 has received its snapshot, a count change of B1 and
\* the snapshot that replaces a malformed message, while B2 counts a member
C40_Witness ==
    /\ sub.bus = "B1" /\ sub.kind = "pubsub"
    /\ Len(sub.received) = 3
    /\ sub.received[2].count = 1
    /\ sub.sent[2] = Malformed("B1")
    /\ last.bus = "B2" /\ last.op = "report" /\ resp.message = "added"
    /\ lastPub = <<CountMessage("B2", 1)>>

====
